---- MODULE Spec2Model ----
(***************************************************************************)
(* Model of the payslip API (src/app.py): the relational store with its    *)
(* four tables, the process-local whitelist cache, and the request         *)
(* handlers that read and write them.                                      *)
(*                                                                         *)
(* Amounts are whole numbers of the smallest currency unit, instants are   *)
(* whole hours.  The store is InnoDB: statements of an open session are    *)
(* visible to that session only, commit publishes them, close or rollback  *)
(* discards them, and the declared foreign keys are enforced.              *)
(***************************************************************************)
EXTENDS Integers, Sequences, FiniteSets, Bags, TLC

VARIABLES
    db,      \* committed rows: [sheets, employees, items]
    meta,    \* committed salary_item_meta: item_name -> item_group
    cache,   \* lru_cache of load_item_meta: [full, value]
    up,      \* the /upload_excel request in progress, or [pc |-> "idle"]
    resp,    \* the response of the last completed request
    th       \* the requests running concurrently on the whitelist cache

vars == <<db, meta, cache, up, resp, th>>

\* ------------------------------------------------------------------ bounds
MaxAmount == 1
MaxTime == 3
MaxRows == 2
MaxStored == 2
MaxThreads == 2
MaxCell == 6
MaxBatchRows == 3
MaxSheets == 1

\* --------------------------------------------------------------- constants
batch_size == 10
BkkOffset == 7

NULL == 0 - 1

Groups == {"earnings", "deductions", "summary"}
ItemNames == {"A", "B"}
Months == {"m1"}
EmpCodes == {"e1"}
ExportCodes == {"e1", "e2"}
Persons == {[full_name |-> "n1", status_name |-> "s1"],
            [full_name |-> "n2", status_name |-> "s2"]}
Amounts == 1..MaxAmount
Times == 0..MaxTime

\* ----------------------------------------------------------------- helpers
SetMax(S) == CHOOSE x \in S : \A y \in S : y <= x

NextId(ids) == IF ids = {} THEN 1 ELSE SetMax(ids) + 1

EmptyDb == [sheets |-> {}, employees |-> {}, items |-> EmptyBag]

\* session.query(SalarySheet).filter_by(month_year=month).first()
sheet_of(s, month) ==
    IF \E x \in s.sheets : x.month_year = month
    THEN CHOOSE x \in s.sheets : x.month_year = month
    ELSE [sheet_id |-> NULL]

\* session.query(Employee).filter_by(emp_code=emp_code).first()
employee_of(s, emp_code) ==
    IF \E x \in s.employees : x.emp_code = emp_code
    THEN CHOOSE x \in s.employees : x.emp_code = emp_code
    ELSE [employee_id |-> NULL]

\* if not sheet: sheet = SalarySheet(month_year=month); add; flush
ensure_sheet(s, month) ==
    IF sheet_of(s, month).sheet_id # NULL THEN s
    ELSE [s EXCEPT !.sheets = @ \cup
            {[sheet_id |-> NextId({x.sheet_id : x \in s.sheets}),
              month_year |-> month,
              api_is_active |-> FALSE,
              api_active_from |-> NULL,
              api_active_to |-> NULL]}]

\* INSERT INTO employees ... ON DUPLICATE KEY UPDATE full_name, status_name
upsert_employee(s, emp_code, full_name, status) ==
    IF employee_of(s, emp_code).employee_id # NULL
    THEN [s EXCEPT !.employees =
            {IF x.emp_code = emp_code
             THEN [x EXCEPT !.full_name = full_name, !.status_name = status]
             ELSE x : x \in @}]
    ELSE [s EXCEPT !.employees = @ \cup
            {[employee_id |-> NextId({x.employee_id : x \in s.employees}),
              emp_code |-> emp_code,
              full_name |-> full_name,
              status_name |-> status]}]

\* the rows of salary_items of one (sheet, employee)
items_of(s, sheet_id, employee_id) ==
    LET keep == {x \in DOMAIN s.items :
                    x.sheet_id = sheet_id /\ x.employee_id = employee_id}
    IN [x \in keep |-> s.items[x]]

\* a replace that forgets the delete
delete_items_none(s, sheet_id, employee_id) == s

\* session.query(SalaryItem).filter_by(sheet_id, employee_id).delete()
delete_items(s, sheet_id, employee_id) ==
    LET keep == {x \in DOMAIN s.items :
                    ~(x.sheet_id = sheet_id /\ x.employee_id = employee_id)}
    IN [s EXCEPT !.items = [x \in keep |-> s.items[x]]]

\* the foreign keys of salary_items
fk_ok(s, rows) ==
    \A x \in DOMAIN rows :
        /\ \E y \in s.sheets : y.sheet_id = x.sheet_id
        /\ \E y \in s.employees : y.employee_id = x.employee_id

\* a close that commits what is pending
session_close_commit(committed, tx) == tx

\* session.close(): what the session had not committed is discarded
session_close(committed, tx) == committed

\* load_item_meta under lru_cache: a hit returns the cached dict, a miss
\* reads the table
load_item_meta == IF cache.full THEN cache.value ELSE meta

Idle == [pc |-> "idle"]
NoCache == [full |-> FALSE, value |-> <<>>]

\* ------------------------------------------------- POST /salary_data/data
\* a value of a payload or of a spreadsheet cell: a number, a text that
\* float() rejects, or a missing cell (NaN)
Num(a) == [kind |-> "num", v |-> a]
Text == [kind |-> "text", v |-> 0]
NaN == [kind |-> "nan", v |-> 0]

\* datalist: a set of [group, name, val], one per (group, name)

\* items that keep the group of the payload
new_items_caller_group(datalist, meta_map, sheet_id, employee_id) ==
    LET one(d) == [sheet_id |-> sheet_id,
                   employee_id |-> employee_id,
                   item_group |-> d.group,
                   item_name |-> d.name,
                   amount |-> d.val.v]
        num == {d \in datalist : d.val.kind = "num"}
        rows == {one(d) : d \in num}
    IN [r \in rows |-> Cardinality({d \in num : one(d) = r})]

\* the SalaryItem objects the loop over datalist adds: item_group is
\* meta_map.get(name, group); a value float() rejects is passed over
new_items(datalist, meta_map, sheet_id, employee_id) ==
    LET one(d) == [sheet_id |-> sheet_id,
                   employee_id |-> employee_id,
                   item_group |-> IF d.name \in DOMAIN meta_map
                                  THEN meta_map[d.name] ELSE d.group,
                   item_name |-> d.name,
                   amount |-> d.val.v]
        num == {d \in datalist : d.val.kind = "num"}
        rows == {one(d) : d \in num}
    IN [r \in rows |-> Cardinality({d \in num : one(d) = r})]

salary_data_post(month, emp_code, person, datalist) ==
    /\ up.pc = "idle"
    /\ IF month = "" \/ emp_code = ""
       THEN /\ resp' = [op |-> "post", status |-> 400]
            /\ UNCHANGED <<db, cache>>
       ELSE LET s1 == ensure_sheet(db, month)
                s2 == upsert_employee(s1, emp_code, person.full_name,
                                      person.status_name)
                sheet == sheet_of(s2, month)
                emp == employee_of(s2, emp_code)
                s3 == delete_items(s2, sheet.sheet_id, emp.employee_id)
                meta_map == load_item_meta
                \* a miss runs load_item_meta's body: Session() is the
                \* request's own scoped session and session.close() ends
                \* its open transaction
                s4 == IF cache.full THEN s3 ELSE session_close(db, s3)
                new == new_items(datalist, meta_map, sheet.sheet_id,
                                 emp.employee_id)
            IN /\ cache' = [full |-> TRUE, value |-> meta_map]
               /\ IF fk_ok(s4, new)
                  THEN /\ BagCardinality(s4.items (+) new) <= MaxStored
                       /\ db' = [s4 EXCEPT !.items = @ (+) new]
                       /\ resp' = [op |-> "post", status |-> 201,
                                   emp_code |-> emp_code, person |-> person,
                                   datalist |-> datalist,
                                   existed |-> employee_of(db, emp_code)
                                                  .employee_id # NULL]
                  ELSE \* IntegrityError at the commit: rollback
                       /\ db' = db
                       /\ resp' = [op |-> "post", status |-> 500]
    /\ UNCHANGED <<meta, up, th>>

\* -------------------------------------------------- GET /salary_data/data
\* grouped[i.item_group][i.item_name] = amount: one entry per (group, name);
\* the query has no ORDER BY, so of several rows with one key any may be last
groupings(rows) ==
    LET T == {[group |-> x.item_group, name |-> x.item_name,
               amount |-> x.amount] : x \in DOMAIN rows}
        K == {<<t.group, t.name>> : t \in T}
    IN {D \in SUBSET T :
          \A k \in K : Cardinality({t \in D : <<t.group, t.name>> = k}) = 1}

\* a lower bound that excludes the bound itself
before_window_strict(sheet, now) ==
    sheet.api_active_from # NULL /\ now <= sheet.api_active_from

\* if active_from and now < active_from
before_window(sheet, now) ==
    sheet.api_active_from # NULL /\ now < sheet.api_active_from

\* if active_to and now > active_to
after_window(sheet, now) ==
    sheet.api_active_to # NULL /\ now > sheet.api_active_to

salary_data_get(month, emp_code, now) ==
    /\ up.pc = "idle"
    /\ LET sheet == sheet_of(db, month)
           emp == employee_of(db, emp_code)
           req == [month |-> month, emp_code |-> emp_code, now |-> now]
           empty == [op |-> "get", status |-> 200, req |-> req,
                     visible |-> FALSE, datalist |-> {}]
       IN IF month = "" \/ emp_code = ""
          THEN resp' = [op |-> "get", status |-> 400, req |-> req,
                        visible |-> FALSE, datalist |-> {}]
          ELSE IF sheet.sheet_id = NULL \/ emp.employee_id = NULL
          THEN resp' = empty
          ELSE IF before_window(sheet, now)
          THEN resp' = empty
          ELSE IF after_window(sheet, now)
          THEN resp' = empty
          ELSE \E D \in groupings(items_of(db, sheet.sheet_id,
                                           emp.employee_id)) :
                  resp' = [op |-> "get", status |-> 200, req |-> req,
                           visible |-> TRUE, datalist |-> D]
    /\ UNCHANGED <<db, meta, cache, up, th>>

\* ------------------------------------------------------ /salary_items/meta
meta_set(m, name, group) ==
    [n \in DOMAIN m \cup {name} |-> IF n = name THEN group ELSE m[n]]

meta_remove(m, name) == [n \in DOMAIN m \ {name} |-> m[n]]

salary_item_meta_post(name, group) ==
    /\ up.pc = "idle"
    /\ IF name = "" \/ group \notin Groups
       THEN /\ resp' = [op |-> "meta_post", status |-> 400]
            /\ UNCHANGED <<meta, cache>>
       ELSE /\ meta' = meta_set(meta, name, group)
            /\ cache' = NoCache
            /\ resp' = [op |-> "meta_post", status |-> 201]
    /\ UNCHANGED <<db, up, th>>

salary_item_meta_delete(name) ==
    /\ up.pc = "idle"
    /\ IF name = ""
       THEN /\ resp' = [op |-> "meta_delete", status |-> 400]
            /\ UNCHANGED <<meta, cache>>
       ELSE /\ meta' = meta_remove(meta, name)
            /\ cache' = NoCache
            /\ resp' = [op |-> "meta_delete",
                        status |-> IF name \in DOMAIN meta THEN 200 ELSE 404]
    /\ UNCHANGED <<db, up, th>>

\* ---------------------------------------------------- POST /upload_excel
\* A file after the column clean-up: the period label of its first row
\* (month), the salary columns (df.columns minus TOP_LEVEL, cols) and the
\* data rows [emp_code, full_name, status_name, vals], vals[col] a cell.
\* The loop reads the rows one at a time.
unknown_cols(cols, meta_map) ==
    SelectSeq(cols, LAMBDA c : c \notin DOMAIN meta_map)

skipped(row) == row.emp_code \in {"", "nan", "none"}

\* the request up to the row loop, validation passed: the session has the
\* sheet (created if missing, not yet committed), the whitelist and the
\* preloaded employees
upload_start(committed, metav, month, cols) ==
    LET tx == ensure_sheet(committed, month)
    IN [pc |-> "rows",
        month |-> month,
        cols |-> cols,
        i |-> 1,
        tx |-> tx,
        sheet_id |-> sheet_of(tx, month).sheet_id,
        meta_map |-> metav,
        emp_map |-> [c \in {e.emp_code : e \in tx.employees}
                       |-> employee_of(tx, c).employee_id],
        salary_items |-> EmptyBag,
        inserted_rows |-> 0,
        committed |-> FALSE,
        last |-> [emp_code |-> "", full_name |-> "", status_name |-> "",
                  existed |-> FALSE],
        before |-> committed]

\* the dicts one row appends to salary_items
staged_of(row, cols, meta_map, sheet_id, emp_id) ==
    LET num == {k \in 1..Len(cols) : row.vals[cols[k]].kind = "num"}
        one(k) == [sheet_id |-> sheet_id,
                   employee_id |-> emp_id,
                   item_group |-> meta_map[cols[k]],
                   item_name |-> cols[k],
                   amount |-> row.vals[cols[k]].v]
        rows == {one(k) : k \in num}
    IN [r \in rows |-> Cardinality({k \in num : one(k) = r})]

\* one iteration of "for _, row in df.iterrows()" on the request state u;
\* committed = TRUE in the result when the iteration ended in the batch
\* commit
upload_row(u, row) ==
    IF skipped(row) THEN [u EXCEPT !.i = @ + 1, !.committed = FALSE]
    ELSE
    LET known == row.emp_code \in DOMAIN u.emp_map
        tx1 == IF known THEN u.tx
               ELSE upsert_employee(u.tx, row.emp_code, row.full_name,
                                    row.status_name)
        emp_id == IF known THEN u.emp_map[row.emp_code]
                  ELSE employee_of(tx1, row.emp_code).employee_id
        emp_map == [c \in DOMAIN u.emp_map \cup {row.emp_code} |->
                      IF c = row.emp_code THEN emp_id ELSE u.emp_map[c]]
        tx2 == delete_items(tx1, u.sheet_id, emp_id)
        staged == staged_of(row, u.cols, u.meta_map, u.sheet_id, emp_id)
        salary_items == u.salary_items (+) staged
        inserted_rows == u.inserted_rows + BagCardinality(staged)
        flush == inserted_rows % batch_size = 0
    IN [u EXCEPT !.i = @ + 1,
                 !.emp_map = emp_map,
                 !.tx = IF flush THEN [tx2 EXCEPT !.items = @ (+) salary_items]
                        ELSE tx2,
                 !.salary_items = IF flush THEN EmptyBag ELSE salary_items,
                 !.inserted_rows = inserted_rows,
                 !.committed = flush,
                 !.last = [emp_code |-> row.emp_code,
                           full_name |-> row.full_name,
                           status_name |-> row.status_name,
                           existed |-> employee_of(u.tx, row.emp_code)
                                          .employee_id # NULL]]

\* an iteration that commits its statements whether or not it flushed
after_row_eager(committed, u) == u.tx

\* the committed rows after an iteration
after_row(committed, u) == IF u.committed THEN u.tx ELSE committed

\* "Commit remaining" and the session's close: the committed rows at the end
upload_end(committed, u) ==
    IF u.salary_items # EmptyBag
    THEN [u.tx EXCEPT !.items = @ (+) u.salary_items]
    ELSE session_close(committed, u.tx)

upload_begin(month, cols) ==
    /\ up.pc = "idle"
    /\ LET unknown == unknown_cols(cols, meta)
       IN IF unknown # <<>>
          THEN /\ resp' = [op |-> "upload", status |-> 400, cols |-> cols,
                           unknown_columns |-> unknown, before |-> db]
               /\ db' = session_close(db, ensure_sheet(db, month))
               /\ cache' = NoCache
               /\ UNCHANGED up
          ELSE /\ up' = upload_start(db, meta, month, cols)
               /\ resp' = [op |-> "upload", status |-> 0]
               /\ UNCHANGED <<db, cache>>
    /\ UNCHANGED <<meta, th>>

\* a file without data rows: df.iloc[0] raises before the session is opened
upload_empty_file ==
    /\ up.pc = "idle"
    /\ resp' = [op |-> "upload", status |-> 500, before |-> db]
    /\ UNCHANGED <<db, meta, cache, up, th>>

\* the next row of the loop, with its batch commit, in a file of at most
\* max_rows rows and a store of at most max_stored line items
upload_row_step(row, max_rows, max_stored) ==
    /\ up.pc = "rows"
    /\ up.i <= max_rows
    /\ DOMAIN row.vals = {up.cols[k] : k \in 1..Len(up.cols)}
    /\ LET u == upload_row(up, row)
       IN /\ BagCardinality(u.tx.items (+) u.salary_items) <= max_stored
          /\ up' = u
          /\ db' = after_row(db, u)
    /\ UNCHANGED <<meta, cache, resp, th>>

upload_next_row(row) == upload_row_step(row, MaxRows, MaxStored)

\* the loop is over: "Commit remaining", then finally: session.close(),
\* cache_clear()
upload_finish ==
    /\ up.pc = "rows"
    /\ up.i > 1
    /\ db' = upload_end(db, up)
    /\ cache' = NoCache
    /\ resp' = [op |-> "upload", status |-> 201,
                sheet |-> up.month,
                rows_inserted |-> up.inserted_rows,
                last |-> up.last]
    /\ up' = Idle
    /\ UNCHANGED <<meta, th>>

\* a statement of the row loop (or the last commit) raises: except branch,
\* session.rollback(), then finally
upload_error_step(max_rows) ==
    /\ up.pc = "rows"
    /\ up.i <= max_rows \/ up.salary_items # EmptyBag
    /\ db' = session_close(db, up.tx)
    /\ cache' = NoCache
    /\ resp' = [op |-> "upload", status |-> 500, before |-> up.before]
    /\ up' = Idle
    /\ UNCHANGED <<meta, th>>

upload_db_error == upload_error_step(MaxRows)

RECURSIVE import_rows(_, _, _)
\* the row loop over a whole list of rows: [u, committed] at its end
import_rows(u, committed, rows) ==
    IF rows = <<>> THEN [u |-> u, committed |-> committed]
    ELSE LET u2 == upload_row(u, Head(rows))
         IN import_rows(u2, after_row(committed, u2), Tail(rows))

\* the committed rows after a whole successful import of a file
\* [month, cols, rows] whose columns are all in the whitelist
import_file(committed, metav, file) ==
    LET r == import_rows(upload_start(committed, metav, file.month, file.cols),
                         committed, file.rows)
    IN upload_end(r.committed, r.u)

\* ------------------------------------------ PATCH /salary_sheets/api-window
\* datetime.fromisoformat(x).replace(tzinfo=TZ_BKK).astimezone(timezone.utc):
\* the civil hour is read as Bangkok time; a malformed text raises
Bad == [ok |-> FALSE, t |-> 0]
Civil(t) == [ok |-> TRUE, t |-> t]

bkk_to_utc(t) == t - BkkOffset

\* utc_to_bkk
utc_to_bkk(t) == IF t = NULL THEN NULL ELSE t + BkkOffset

\* a full update: a key the body does not carry resets its bound
patch_sheet_reset(sheet, data) ==
    [sheet EXCEPT
        !.api_is_active = IF "api_is_active" \in data.keys
                          THEN data.api_is_active ELSE @,
        !.api_active_from = IF "api_active_from" \in data.keys
                            THEN bkk_to_utc(data.api_active_from.t) ELSE NULL,
        !.api_active_to = IF "api_active_to" \in data.keys
                          THEN bkk_to_utc(data.api_active_to.t) ELSE NULL]

\* the assignments to the sheet object, all values well-formed;
\* data: a JSON body, [keys, api_is_active, api_active_from, api_active_to]
patch_sheet(sheet, data) ==
    LET has(k) == k \in data.keys
        s1 == IF has("api_is_active")
              THEN [sheet EXCEPT !.api_is_active = data.api_is_active]
              ELSE sheet
        s2 == IF has("api_active_from")
              THEN [s1 EXCEPT !.api_active_from =
                       bkk_to_utc(data.api_active_from.t)]
              ELSE s1
    IN IF has("api_active_to")
       THEN [s2 EXCEPT !.api_active_to = bkk_to_utc(data.api_active_to.t)]
       ELSE s2

set_api_window(sheet_id, data) ==
    /\ up.pc = "idle"
    /\ LET has(k) == k \in data.keys
           found == \E x \in db.sheets : x.sheet_id = sheet_id
           sheet == CHOOSE x \in db.sheets : x.sheet_id = sheet_id
           bad_from == has("api_active_from") /\ ~data.api_active_from.ok
           bad_to == has("api_active_to") /\ ~data.api_active_to.ok
           s3 == patch_sheet(sheet, data)
           req == [sheet_id |-> sheet_id, data |-> data]
       IN IF sheet_id = 0
          THEN /\ resp' = [op |-> "patch", status |-> 400, req |-> req]
               /\ UNCHANGED db
          ELSE IF ~found
          THEN /\ resp' = [op |-> "patch", status |-> 404, req |-> req]
               /\ UNCHANGED db
          ELSE IF bad_from \/ bad_to
          THEN \* return inside try: finally closes the session uncommitted
               /\ resp' = [op |-> "patch", status |-> 400, req |-> req]
               /\ db' = session_close(db,
                     [db EXCEPT !.sheets = (@ \ {sheet}) \cup
                        {IF has("api_is_active")
                         THEN [sheet EXCEPT !.api_is_active =
                                              data.api_is_active]
                         ELSE sheet}])
          ELSE /\ db' = [db EXCEPT !.sheets = (@ \ {sheet}) \cup {s3}]
               /\ resp' = [op |-> "patch", status |-> 200, req |-> req,
                           api_is_active |-> s3.api_is_active,
                           api_active_from_bkk |-> utc_to_bkk(s3.api_active_from),
                           api_active_to_bkk |-> utc_to_bkk(s3.api_active_to)]
    /\ UNCHANGED <<meta, cache, up, th>>

\* -------------------------------------------- GET /salary_sheets/api-window
is_active_now(s, now) ==
    /\ s.api_is_active
    /\ s.api_active_from = NULL \/ now >= s.api_active_from
    /\ s.api_active_to = NULL \/ now <= s.api_active_to

get_api_window(now) ==
    /\ up.pc = "idle"
    /\ resp' = [op |-> "window", status |-> 200, now |-> now,
                result |-> {[sheet_id |-> s.sheet_id,
                             month_year |-> s.month_year,
                             api_is_active |-> s.api_is_active,
                             is_active_now |-> is_active_now(s, now)]
                            : s \in db.sheets}]
    /\ UNCHANGED <<db, meta, cache, up, th>>

\* ------------------------------------------------- GET /salary_data/export
RECURSIVE SumBag(_, _)
\* the sum of f over the rows of a bag, copies counted
SumBag(b, S) ==
    IF S = {} THEN 0
    ELSE LET x == CHOOSE y \in S : TRUE
         IN b[x] * x.amount + SumBag(b, S \ {x})

\* pivot[employee][item name]: aggfunc="sum" over the employee's rows of that
\* name, any category; fill_value=0
pivot_cell(rows, employee_id, name) ==
    SumBag(rows, {x \in DOMAIN rows :
                     x.employee_id = employee_id /\ x.item_name = name})

\* df[df.category == group].item.unique()
group_cols(rows, group) ==
    {x.item_name : x \in {y \in DOMAIN rows : y.item_group = group}}

RECURSIVE SumCols(_, _, _)
\* pivot[list(cols)].sum(axis=1) for one employee
SumCols(rows, employee_id, cols) ==
    IF cols = {} THEN 0
    ELSE LET c == CHOOSE y \in cols : TRUE
         IN pivot_cell(rows, employee_id, c)
            + SumCols(rows, employee_id, cols \ {c})

pivot_row(rows, emp) ==
    LET te == SumCols(rows, emp.employee_id, group_cols(rows, "earnings"))
        td == SumCols(rows, emp.employee_id, group_cols(rows, "deductions"))
    IN [emp_code |-> emp.emp_code,
        employee_id |-> emp.employee_id,
        total_earnings |-> te,
        total_deductions |-> td,
        net_pay |-> te - td]

export_salary_month_pivot(month) ==
    /\ up.pc = "idle"
    /\ LET sheet == sheet_of(db, month)
           rows == [x \in {y \in DOMAIN db.items : y.sheet_id = sheet.sheet_id}
                      |-> db.items[x]]
           emps == {e \in db.employees :
                      \E x \in DOMAIN rows : x.employee_id = e.employee_id}
       IN IF month = ""
          THEN resp' = [op |-> "export", status |-> 400]
          ELSE IF sheet.sheet_id = NULL \/ DOMAIN rows = {}
          THEN resp' = [op |-> "export", status |-> 404]
          ELSE resp' = [op |-> "export", status |-> 200, month |-> month,
                        pivot |-> {pivot_row(rows, e) : e \in emps}]
    /\ UNCHANGED <<db, meta, cache, up, th>>

\* ------------------------------------------------ the "Sheet" column
\* A cell of the column as text, one token per element: a Thai month
\* abbreviation (written here in Latin letters, "p.y." for the November
\* key of prefix_map), another run of non-digit characters, a decimal digit
\* or a whitespace character.
prefix_map ==
    [a \in {"m.k.", "k.p.", "mi.k.", "me.y.", "p.k.", "mi.y.",
            "k.k.", "s.k.", "k.y.", "t.k.", "p.y.", "th.k."} |->
        CASE a = "m.k." -> "January"
          [] a = "k.p." -> "February"
          [] a = "mi.k." -> "March"
          [] a = "me.y." -> "April"
          [] a = "p.k." -> "May"
          [] a = "mi.y." -> "June"
          [] a = "k.k." -> "July"
          [] a = "s.k." -> "August"
          [] a = "k.y." -> "September"
          [] a = "t.k." -> "October"
          [] a = "p.y." -> "November"
          [] a = "th.k." -> "December"]

Digits == {"2", "5", "6", "8"}
Whitespace == {" "}

\* .str.replace(r"\s+", "", regex=True)
remove_whitespace(cell) == SelectSeq(cell, LAMBDA c : c \notin Whitespace)

\* str.strip()
RECURSIVE strip(_)
strip(q) ==
    IF q = <<>> THEN q
    ELSE IF Head(q) \in Whitespace THEN strip(Tail(q))
    ELSE IF q[Len(q)] \in Whitespace THEN strip(SubSeq(q, 1, Len(q) - 1))
    ELSE q

\* s.str.extract(r"^(\D+)(\d{4})$"): [ok, prefix, year_th]; no match gives
\* NaN in both columns
extract(s) ==
    LET n == Len(s)
    IN IF /\ n >= 5
          /\ \A k \in (n - 3)..n : s[k] \in Digits
          /\ \A k \in 1..(n - 4) : s[k] \notin Digits
       THEN [ok |-> TRUE, prefix |-> SubSeq(s, 1, n - 4),
             year_th |-> SubSeq(s, n - 3, n)]
       ELSE [ok |-> FALSE, prefix |-> <<>>, year_th |-> <<>>]

\* df["prefix"].map(prefix_map).fillna(df["prefix"])
\*     + df["year_th"].astype(str), then str(...).strip():
\* a NaN prefix stays NaN through map and fillna, NaN + "nan" is NaN, and
\* str(NaN) is "nan"
month_value(cell) ==
    LET m == extract(remove_whitespace(cell))
    IN IF ~m.ok THEN <<"nan">>
       ELSE IF Len(m.prefix) = 1 /\ m.prefix[1] \in DOMAIN prefix_map
       THEN <<prefix_map[m.prefix[1]]>> \o m.year_th
       ELSE m.prefix \o m.year_th

\* the request for a file whose first row has the "Sheet" cell cell
upload_excel(cell, cols) ==
    /\ Cardinality(db.sheets) < MaxSheets
    /\ upload_begin(month_value(cell), cols)

\* ------------------------------------- load_item_meta, one step at a time
\* The requests of the threaded server on the whitelist: a reader is a
\* request inside load_item_meta (the lru_cache wrapper looks the key up,
\* calls the function on a miss, and stores the result after the call
\* unless the key is there by then); a writer is a POST or DELETE of
\* /salary_items/meta (commit, then cache_clear(), then the response).
Threads == 1..MaxThreads

IdleThread == [pc |-> "idle", rows |-> <<>>]

load_call(t) ==
    /\ th[t].pc = "idle"
    /\ ~cache.full
    /\ th' = [th EXCEPT ![t].pc = "select"]
    /\ UNCHANGED <<db, meta, cache, up, resp>>

load_hit(t) ==
    /\ th[t].pc = "idle"
    /\ cache.full
    /\ resp' = [op |-> "load", status |-> 200, value |-> cache.value]
    /\ UNCHANGED <<db, meta, cache, up, th>>

load_select(t) ==
    /\ th[t].pc = "select"
    /\ th' = [th EXCEPT ![t] = [pc |-> "store", rows |-> meta]]
    /\ UNCHANGED <<db, meta, cache, up, resp>>

load_store(t) ==
    /\ th[t].pc = "store"
    /\ cache' = IF cache.full THEN cache
                ELSE [full |-> TRUE, value |-> th[t].rows]
    /\ resp' = [op |-> "load", status |-> 200, value |-> th[t].rows]
    /\ th' = [th EXCEPT ![t] = IdleThread]
    /\ UNCHANGED <<db, meta, up>>

meta_post_commit(t, name, group) ==
    /\ th[t].pc = "idle"
    /\ meta' = meta_set(meta, name, group)
    /\ th' = [th EXCEPT ![t].pc = "clear"]
    /\ UNCHANGED <<db, cache, up, resp>>

meta_delete_commit(t, name) ==
    /\ th[t].pc = "idle"
    /\ meta' = meta_remove(meta, name)
    /\ th' = [th EXCEPT ![t].pc = "clear"]
    /\ UNCHANGED <<db, cache, up, resp>>

\* load_item_meta.cache_clear(), then the response
meta_clear_ack(t) ==
    /\ th[t].pc = "clear"
    /\ cache' = NoCache
    /\ resp' = [op |-> "meta", status |-> 200]
    /\ th' = [th EXCEPT ![t] = IdleThread]
    /\ UNCHANGED <<db, meta, up>>

\* ---------------------------- POST /salary_data/data, one step at a time
\* The requests of the threaded server on one (period, employee) that both
\* exist.  Each thread has its own scoped session: th[t].open says that the
\* transaction begun by the first query is still there, th[t].tx is the
\* store as that transaction sees it, th[t].lock that it holds the X lock
\* INSERT ... ON DUPLICATE KEY UPDATE takes on the employee's row, which
\* the statement of another transaction on that row, and the foreign-key
\* check of an insert into salary_items, wait for.
RaceMonth == "m1"
RaceCode == "e1"
RacePerson == [full_name |-> "n1", status_name |-> "s1"]

\* a transaction that stays open through load_item_meta
commit_base_kept(committed, open, tx) == tx

\* what session.commit() builds on: the open transaction, or after a
\* session.close() a new transaction on the committed rows
commit_base(committed, open, tx) == IF open THEN tx ELSE committed

row_locked(t) == \E u \in Threads \ {t} : th[u].pc # "idle" /\ th[u].lock

\* session.query(SalarySheet)...first(): the sheet is there
post_begin(t, datalist) ==
    /\ th[t].pc = "idle"
    /\ th' = [th EXCEPT ![t] = [pc |-> "upsert", datalist |-> datalist,
                                open |-> TRUE, lock |-> FALSE, tx |-> db,
                                meta_map |-> <<>>]]
    /\ UNCHANGED <<db, meta, cache, up, resp>>

\* INSERT INTO employees ... ON DUPLICATE KEY UPDATE, session.query(Employee)
post_upsert(t) ==
    /\ th[t].pc = "upsert"
    /\ ~row_locked(t)
    /\ th' = [th EXCEPT ![t].pc = "delete",
                        ![t].lock = TRUE,
                        ![t].tx = upsert_employee(db, RaceCode,
                                                  RacePerson.full_name,
                                                  RacePerson.status_name)]
    /\ UNCHANGED <<db, meta, cache, up, resp>>

\* session.query(SalaryItem).filter_by(...).delete()
post_delete(t) ==
    /\ th[t].pc = "delete"
    /\ th' = [th EXCEPT ![t].pc = "load",
                        ![t].tx = delete_items(@,
                                    sheet_of(@, RaceMonth).sheet_id,
                                    employee_of(@, RaceCode).employee_id)]
    /\ UNCHANGED <<db, meta, cache, up, resp>>

\* load_item_meta(): the key is in the lru_cache
post_load_hit(t) ==
    /\ th[t].pc = "load"
    /\ cache.full
    /\ th' = [th EXCEPT ![t].pc = "add", ![t].meta_map = cache.value]
    /\ UNCHANGED <<db, meta, cache, up, resp>>

\* load_item_meta(): a miss runs the body on the thread's own session, and
\* its session.close() rolls the transaction back and frees its locks
post_load_miss(t) ==
    /\ th[t].pc = "load"
    /\ ~cache.full
    /\ th' = [th EXCEPT ![t].pc = "store",
                        ![t].meta_map = meta,
                        ![t].open = FALSE,
                        ![t].lock = FALSE,
                        ![t].tx = session_close(db, @)]
    /\ UNCHANGED <<db, meta, cache, up, resp>>

\* the lru_cache wrapper stores the result of the call
post_load_store(t) ==
    /\ th[t].pc = "store"
    /\ cache' = IF cache.full THEN cache
                ELSE [full |-> TRUE, value |-> th[t].meta_map]
    /\ th' = [th EXCEPT ![t].pc = "add"]
    /\ UNCHANGED <<db, meta, up, resp>>

\* the rows the loop over datalist adds for thread t
post_rows(t) ==
    new_items(th[t].datalist, th[t].meta_map,
              sheet_of(db, RaceMonth).sheet_id,
              employee_of(db, RaceCode).employee_id)

\* session.add(...) for each value, session.commit(), 201
post_commit(t) ==
    /\ th[t].pc = "add"
    /\ post_rows(t) # EmptyBag => ~row_locked(t)
    /\ db' = [commit_base(db, th[t].open, th[t].tx)
                EXCEPT !.items = @ (+) post_rows(t)]
    /\ th' = [th EXCEPT ![t].pc = "done", ![t].lock = FALSE,
                        ![t].open = FALSE]
    /\ resp' = [op |-> "post", status |-> 201, thread |-> t]
    /\ UNCHANGED <<meta, cache, up>>

\* ------------------------------------------------------------ the requests
PayloadGroups == {"earnings", "deductions"}

MetaGroups == {"deductions", "bogus"}

Entries ==
    [group : PayloadGroups, name : ItemNames, val : {Num(a) : a \in Amounts}]

\* JSON objects: at most one value per (group, name); one payload with a
\* value that float() rejects
Datalists ==
    {D \in SUBSET Entries :
        /\ Cardinality(D) <= 2
        /\ \A d, e \in D : d.group = e.group /\ d.name = e.name => d = e}
    \cup {{[group |-> "earnings", name |-> "A", val |-> Text]}}

\* the payloads whose amounts are all one unit
UnitDatalists == {D \in Datalists : \A d \in D : d.val.v <= 1}

ColumnLists == {<<>>, <<"A">>, <<"A", "B">>}

Cells == {Num(a) : a \in Amounts} \cup {NaN}

Range(q) == {q[k] : k \in 1..Len(q)}

\* the rows of a file with the salary columns cols
FileRows(cols) ==
    {[emp_code |-> "nan", full_name |-> "nan", status_name |-> "nan",
      vals |-> [c \in Range(cols) |-> NaN]]}
    \cup {[emp_code |-> e, full_name |-> "n1", status_name |-> "s1",
           vals |-> [c \in Range(cols) |-> v]] : e \in EmpCodes, v \in Cells}

SeqsUpTo(S, n) == UNION {[1..k -> S] : k \in 1..n}

\* the files with at least one row
Files ==
    UNION {{[month |-> m, cols |-> cols, rows |-> rows] :
              m \in Months, rows \in SeqsUpTo(FileRows(cols), MaxRows)}
           : cols \in ColumnLists}

PatchKeys == {"api_is_active", "api_active_from", "api_active_to"}

CivilInputs == {Civil(utc + BkkOffset) : utc \in 1..(MaxTime - 1)} \cup {Bad}

\* a JSON body: the keys it carries and their values (a key it does not
\* carry has a fixed filler value that nothing reads)
PatchBodies ==
    {d \in [keys : SUBSET PatchKeys, api_is_active : BOOLEAN,
            api_active_from : CivilInputs, api_active_to : CivilInputs] :
        /\ "api_is_active" \notin d.keys => d.api_is_active = FALSE
        /\ "api_active_from" \notin d.keys => d.api_active_from = Bad
        /\ "api_active_to" \notin d.keys => d.api_active_to = Bad}

\* a body with the three keys, all well-formed
FullBody ==
    [keys |-> PatchKeys, api_is_active |-> TRUE,
     api_active_from |-> Civil(1 + BkkOffset),
     api_active_to |-> Civil(1 + BkkOffset)]

\* the "Sheet" cells: every text of up to MaxCell tokens over one
\* abbreviation, one other word, one digit and the blank, and every
\* abbreviation before a year
SheetCells ==
    SeqsUpTo({"p.y.", "x", "2", " "}, MaxCell)
    \cup {<<a, "2", "5", "6", "8">> : a \in DOMAIN prefix_map}

\* a whitelist of five items and the files with these five salary columns
BatchCols == <<"A", "B", "C", "D", "E">>

BatchMeta == [n \in Range(BatchCols) |-> "earnings"]

BatchCodes == {"e1", "e2"}

\* the rows whose first n cells are amounts and whose other cells are empty
BatchRow(e, n) ==
    [emp_code |-> e, full_name |-> "n1", status_name |-> "s1",
     vals |-> [c \in Range(BatchCols) |->
                 IF \E k \in 1..n : BatchCols[k] = c THEN Num(1) ELSE NaN]]

BatchRows == {BatchRow(e, n) : e \in BatchCodes \cup {"nan"}, n \in {0, 3, 5}}

\* the payloads of the concurrent upserts: one amount each
RacePayloads ==
    {D \in UnitDatalists :
        Cardinality(D) = 1 /\ \A d \in D : d.val.kind = "num"}

Init ==
    /\ db = EmptyDb
    /\ meta = <<>>
    /\ cache = NoCache
    /\ up = Idle
    /\ resp = [op |-> "none", status |-> 0]
    /\ th = [t \in Threads |-> IdleThread]

\* the writes, one request after the other
Next ==
    \/ \E m \in Months, e \in EmpCodes, p \in Persons, d \in UnitDatalists :
          salary_data_post(m, e, p, d)
    \/ \E m \in Months : salary_data_post(m, "", CHOOSE p \in Persons : TRUE, {})
    \/ \E m \in Months, c \in ColumnLists : upload_begin(m, c)
    \/ upload_empty_file
    \/ \E c \in ColumnLists : \E r \in FileRows(c) : upload_next_row(r)
    \/ upload_finish
    \/ upload_db_error
    \/ \E n \in ItemNames \cup {""}, g \in MetaGroups :
          salary_item_meta_post(n, g)
    \/ \E n \in ItemNames \cup {""} : salary_item_meta_delete(n)

Spec == Init /\ [][Next]_vars

\* one period and its reads
NextWindow ==
    \/ \E d \in {D \in Datalists : Cardinality(D) <= 1} :
          salary_data_post("m1", "e1", CHOOSE p \in Persons : TRUE, d)
    \/ \E m \in Months, e \in ExportCodes \cup {""}, t \in Times :
          salary_data_get(m, e, t)
    \/ \E d \in PatchBodies : set_api_window(1, d)
    \/ \E id \in {0, 2} : set_api_window(id, FullBody)
    \/ \E t \in Times : get_api_window(t)

SpecWindow == Init /\ [][NextWindow]_vars

\* upserts and the export
NextExport ==
    \/ \E m \in Months, e \in ExportCodes, d \in Datalists :
          salary_data_post(m, e, CHOOSE p \in Persons : TRUE, d)
    \/ \E m \in Months \cup {""} : export_salary_month_pivot(m)

SpecExport == Init /\ [][NextExport]_vars

\* concurrent requests on the whitelist and its cache
NextCache ==
    \/ \E t \in Threads : load_call(t)
    \/ \E t \in Threads : load_hit(t)
    \/ \E t \in Threads : load_select(t)
    \/ \E t \in Threads : load_store(t)
    \/ \E t \in Threads, n \in ItemNames, g \in PayloadGroups :
          meta_post_commit(t, n, g)
    \/ \E t \in Threads, n \in ItemNames : meta_delete_commit(t, n)
    \/ \E t \in Threads : meta_clear_ack(t)

SpecCache == Init /\ [][NextCache]_vars

\* imports of files without salary columns, by their "Sheet" cell
NextSheet ==
    \/ \E cell \in SheetCells : upload_excel(cell, <<>>)
    \/ \E r \in FileRows(<<>>) : upload_next_row(r)
    \/ upload_finish

SpecSheet == Init /\ [][NextSheet]_vars

\* imports of files with five salary columns into a store whose whitelist
\* has the five items
InitBatch ==
    /\ db = EmptyDb
    /\ meta = BatchMeta
    /\ cache = NoCache
    /\ up = Idle
    /\ resp = [op |-> "none", status |-> 0]
    /\ th = [t \in Threads |-> IdleThread]

NextBatch ==
    \/ \E m \in Months : upload_begin(m, BatchCols)
    \/ \E r \in BatchRows :
          upload_row_step(r, MaxBatchRows, MaxBatchRows * Len(BatchCols))
    \/ upload_finish
    \/ upload_error_step(MaxBatchRows)

SpecBatch == InitBatch /\ [][NextBatch]_vars

\* concurrent upserts of one employee's items of one period, which holds
\* one item from before
InitRace ==
    /\ db = [upsert_employee(ensure_sheet(EmptyDb, RaceMonth), RaceCode,
                             RacePerson.full_name, RacePerson.status_name)
             EXCEPT !.items =
                new_items({[group |-> "earnings", name |-> "A",
                            val |-> Num(1)]}, <<>>, 1, 1)]
    /\ meta = <<>>
    /\ cache = NoCache
    /\ up = Idle
    /\ resp = [op |-> "none", status |-> 0]
    /\ th = [t \in Threads |-> IdleThread]

NextRace ==
    \/ \E t \in Threads, d \in RacePayloads : post_begin(t, d)
    \/ \E t \in Threads : post_upsert(t)
    \/ \E t \in Threads : post_delete(t)
    \/ \E t \in Threads : post_load_hit(t)
    \/ \E t \in Threads : post_load_miss(t)
    \/ \E t \in Threads : post_load_store(t)
    \/ \E t \in Threads : post_commit(t)

SpecRace == InitRace /\ [][NextRace]_vars

\* ------------------------------------------------------------- properties
\* C1: for a period and an employee that both exist, GET /salary_data/data
\* at instant now answers the empty list when active_from is set and
\* now < active_from or active_to is set and now > active_to, and in every
\* other case answers the stored line items of that (period, employee),
\* grouped by category and name.
C1_TimeGate ==
    (resp.op = "get" /\ resp.status = 200) =>
        LET sheet == sheet_of(db, resp.req.month)
            emp == employee_of(db, resp.req.emp_code)
            now == resp.req.now
        IN (sheet.sheet_id # NULL /\ emp.employee_id # NULL) =>
            LET outside ==
                    \/ sheet.api_active_from # NULL /\ now < sheet.api_active_from
                    \/ sheet.api_active_to # NULL /\ now > sheet.api_active_to
                stored == {x \in DOMAIN db.items :
                              /\ x.sheet_id = sheet.sheet_id
                              /\ x.employee_id = emp.employee_id}
            IN IF outside
               THEN ~resp.visible /\ resp.datalist = {}
               ELSE /\ resp.visible
                    /\ \A t \in resp.datalist : \E x \in stored :
                          /\ x.item_group = t.group
                          /\ x.item_name = t.name
                          /\ x.amount = t.amount
                    /\ \A x \in stored : \E t \in resp.datalist :
                          x.item_group = t.group /\ x.item_name = t.name

\* a query exactly at the upper bound of a window answers the stored items
C1_Witness ==
    /\ resp.op = "get" /\ resp.status = 200
    /\ resp.visible /\ resp.datalist # {}
    /\ LET sheet == sheet_of(db, resp.req.month)
       IN /\ sheet.sheet_id # NULL
          /\ sheet.api_active_from # NULL
          /\ sheet.api_active_to = resp.req.now

\* C2: after any sequence of completed writes no two SalaryItem rows share
\* the same (sheet_id, employee_id, item_name).
C2_UniqueTriple ==
    up.pc = "idle" =>
        \A x \in DOMAIN db.items :
            /\ db.items[x] = 1
            /\ \A y \in DOMAIN db.items :
                  (/\ y.sheet_id = x.sheet_id
                   /\ y.employee_id = x.employee_id
                   /\ y.item_name = x.item_name) => y = x

\* the line items of one period
period_items(s, month) ==
    LET id == sheet_of(s, month).sheet_id
        keep == {x \in DOMAIN s.items : x.sheet_id = id}
    IN [x \in keep |-> s.items[x]]

\* C3: for every file that passes validation, importing it twice in a row
\* with the whitelist unchanged leaves the same line items for the period
\* as importing it once.
C3_ReimportIdempotent ==
    up.pc = "idle" =>
        \A f \in Files : unknown_cols(f.cols, meta) = <<>> =>
            LET once == import_file(db, meta, f)
                twice == import_file(once, meta, f)
            IN period_items(twice, f.month) = period_items(once, f.month)

\* an import has just written items, and the state it left is what
\* importing some file with items again from that state gives
C3_Witness ==
    /\ resp.op = "upload" /\ resp.status = 201 /\ resp.rows_inserted > 0
    /\ db.items # EmptyBag
    /\ \E f \in Files :
          /\ unknown_cols(f.cols, meta) = <<>>
          /\ f.cols # <<>>
          /\ \E k \in 1..Len(f.rows) : ~skipped(f.rows[k])
          /\ import_file(db, meta, f) = db

\* C4: an upload with at least one salary column outside the whitelist is
\* answered 400 with every such column listed, and the stored sheets,
\* employees and line items are what they were before the request.
C4_RejectWritesNothing ==
    /\ (resp.op = "upload" /\ resp.status = 400) =>
          /\ db = resp.before
          /\ resp.unknown_columns # <<>>
          /\ Len(resp.unknown_columns)
                = Cardinality(Range(resp.unknown_columns))
          /\ Range(resp.unknown_columns)
                = {c \in Range(resp.cols) : c \notin DOMAIN meta}
    /\ up.pc = "rows" => \A c \in Range(up.cols) : c \in DOMAIN meta

\* a file with a known and an unknown column was rejected for a period
\* that has no record
C4_Witness ==
    /\ resp.op = "upload" /\ resp.status = 400
    /\ Len(resp.cols) = 2 /\ Len(resp.unknown_columns) = 1
    /\ db.sheets = {}

employee_is(code, full_name, status_name) ==
    /\ Cardinality({e \in db.employees : e.emp_code = code}) = 1
    /\ \A e \in db.employees : e.emp_code = code =>
          e.full_name = full_name /\ e.status_name = status_name

\* C5: after a write that carries an existing employee code with name n and
\* status s (an upsert, or a non-skipped row of a successful import) there
\* is exactly one Employee row with that code and it has name n, status s.
C5_UpsertUpdates ==
    /\ (resp.op = "post" /\ resp.status = 201 /\ resp.existed) =>
          employee_is(resp.emp_code, resp.person.full_name,
                      resp.person.status_name)
    /\ (resp.op = "upload" /\ resp.status = 201 /\ resp.last.existed) =>
          employee_is(resp.last.emp_code, resp.last.full_name,
                      resp.last.status_name)

\* C6: when a database error ends an import with 500, the stored sheets,
\* employees and line items equal those from before the import started.
C6_ErrorRollsBack ==
    (resp.op = "upload" /\ resp.status = 500) => db = resp.before

\* C7: once every metadata write has been acknowledged, a load_item_meta
\* call returns the whitelist as committed in the table: the cache is empty
\* or holds the committed whitelist.
C7_NoStaleCache ==
    (\A t \in Threads : th[t].pc # "clear") =>
        (cache.full => cache.value = meta)

\* C8: for a period whose api_is_active is false, GET /salary_data/data
\* returns no line items, whatever the window and the instant.
C8_InactiveHidden ==
    (resp.op = "get" /\ resp.status = 200) =>
        LET sheet == sheet_of(db, resp.req.month)
        IN (sheet.sheet_id # NULL /\ ~sheet.api_is_active) =>
              resp.datalist = {}

\* the sum of the stored amounts of one employee in one category
category_total(employee_id, group) ==
    SumBag(db.items, {x \in DOMAIN db.items :
                         x.employee_id = employee_id /\ x.item_group = group})

\* C9: in every row of the export, Total Earnings is the sum of the
\* employee's stored earnings, Total Deductions the sum of the employee's
\* stored deductions, and Net Pay their difference.
C9_PivotTotals ==
    (resp.op = "export" /\ resp.status = 200) =>
        \A r \in resp.pivot :
            /\ r.total_earnings = category_total(r.employee_id, "earnings")
            /\ r.total_deductions = category_total(r.employee_id, "deductions")
            /\ r.net_pay = r.total_earnings - r.total_deductions

\* C10: a successful PATCH sets each of api_is_active, api_active_from and
\* api_active_to that the body carries (a bound to the UTC instant of the
\* Bangkok civil time given) and leaves every other field and sheet as it
\* was; a PATCH answered with an error changes nothing.
C10_PartialUpdate ==
    [][resp'.op = "patch" =>
        IF resp'.status = 200
        THEN LET data == resp'.req.data
                 old == CHOOSE x \in db.sheets : x.sheet_id = resp'.req.sheet_id
                 new == CHOOSE x \in db'.sheets : x.sheet_id = resp'.req.sheet_id
             IN /\ db'.sheets \ {new} = db.sheets \ {old}
                /\ db'.employees = db.employees /\ db'.items = db.items
                /\ new.month_year = old.month_year
                /\ new.api_is_active =
                      IF "api_is_active" \in data.keys
                      THEN data.api_is_active ELSE old.api_is_active
                /\ new.api_active_from =
                      IF "api_active_from" \in data.keys
                      THEN data.api_active_from.t - BkkOffset
                      ELSE old.api_active_from
                /\ new.api_active_to =
                      IF "api_active_to" \in data.keys
                      THEN data.api_active_to.t - BkkOffset
                      ELSE old.api_active_to
        ELSE db' = db]_vars

\* a body with only api_is_active was applied to a sheet that has both
\* bounds set
C10_Witness ==
    /\ resp.op = "patch" /\ resp.status = 200
    /\ resp.req.data.keys = {"api_is_active"}
    /\ \E x \in db.sheets :
          /\ x.sheet_id = resp.req.sheet_id
          /\ x.api_active_from # NULL /\ x.api_active_to # NULL
          /\ x.api_is_active = resp.req.data.api_is_active

\* C11: the period label of an import is, for a "Sheet" cell that without
\* its whitespace is a non-digit prefix and exactly four digits, the English
\* month name of a prefix among the 12 abbreviations, or else the prefix
\* itself, followed by the four digits; for any other cell it is the
\* original text of the cell.
C11_MonthLabel ==
    [][\A cell \in SheetCells :
          (upload_excel(cell, <<>>) /\ up'.pc = "rows") =>
              LET s == remove_whitespace(cell)
                  n == Len(s)
                  matches == /\ n >= 5
                             /\ \A k \in 1..n : s[k] \in Digits <=> k > n - 4
                  prefix == SubSeq(s, 1, n - 4)
                  year == SubSeq(s, n - 3, n)
              IN IF matches
                 THEN up'.month =
                        (IF Len(prefix) = 1 /\ prefix[1] \in DOMAIN prefix_map
                         THEN <<prefix_map[prefix[1]]>> ELSE prefix) \o year
                 ELSE up'.month \in {cell, strip(cell), s}]_vars

\* the number of copies of row r in the bag b
copies(b, r) == IF r \in DOMAIN b THEN b[r] ELSE 0

\* C12: with requests one after the other, every line item a successful
\* POST /salary_data/data writes has the category the whitelist gives its
\* name at that moment, or the group of the payload when the whitelist does
\* not have the name; every line item an import writes has the category the
\* whitelist gives its name.
C12_WhitelistCategory ==
    [][/\ (up.pc = "idle" /\ resp'.op = "post" /\ resp'.status = 201) =>
            LET employee_id == employee_of(db', resp'.emp_code).employee_id
                num == {x \in resp'.datalist : x.val.kind = "num"}
                category(x) == IF x.name \in DOMAIN meta
                               THEN meta[x.name] ELSE x.group
                is(r, x) == /\ r.employee_id = employee_id
                            /\ r.item_name = x.name
                            /\ r.item_group = category(x)
                            /\ r.amount = x.val.v
            IN /\ \A x \in num : \E r \in DOMAIN db'.items : is(r, x)
               /\ \A r \in DOMAIN db'.items :
                    copies(db'.items, r) > copies(db.items, r) =>
                        \E x \in num : is(r, x)
       /\ up.pc = "rows" =>
            \A r \in DOMAIN db'.items :
                copies(db'.items, r) > copies(db.items, r) =>
                    /\ r.item_name \in DOMAIN meta
                    /\ r.item_group = meta[r.item_name]]_vars

\* an upsert has just stored, under the whitelist's category, an item that
\* its payload carried under another group, and under the payload's group
\* an item whose name the whitelist does not have
C12_Witness ==
    /\ resp.op = "post" /\ resp.status = 201
    /\ \E x, y \in resp.datalist :
          /\ x.val.kind = "num" /\ y.val.kind = "num"
          /\ x.name \in DOMAIN meta /\ meta[x.name] # x.group
          /\ y.name \notin DOMAIN meta
          /\ \E r, q \in DOMAIN db.items :
                /\ r.item_name = x.name /\ r.item_group = meta[x.name]
                /\ q.item_name = y.name /\ q.item_group = y.group
          /\ \A r \in DOMAIN db.items :
                r.item_name = x.name => r.item_group = meta[x.name]

\* C13: during an import every bulk insert before the final one writes
\* exactly batch_size items, and the staged buffer never holds more than
\* batch_size items.
C13_FixedBatches ==
    [][(up.pc = "rows" /\ up'.pc = "rows") =>
          LET written == BagCardinality(up.salary_items)
                            + (up'.inserted_rows - up.inserted_rows)
          IN /\ BagCardinality(up'.salary_items) <= batch_size
             /\ (up'.committed /\ written > 0) => written = batch_size]_vars

\* the line items of the raced (period, employee)
race_items(s) ==
    items_of(s, sheet_of(s, RaceMonth).sheet_id,
             employee_of(s, RaceCode).employee_id)

\* C14: the replace of POST /salary_data/data is open to concurrent
\* writers: a request whose delete was undone before its commit (its
\* session was closed under it) adds its rows beside whatever the other
\* requests have committed by then, and only a request whose transaction
\* is whole leaves its payload alone; so two acknowledged concurrent
\* upserts of one key can leave the rows of both, the same item name twice.
C14_RaceKeepsBoth ==
    [][\A t \in Threads :
          (th[t].pc = "add" /\ th'[t].pc = "done") =>
              IF th[t].open
              THEN race_items(db') = post_rows(t)
              ELSE db'.items = db.items (+) post_rows(t)]_vars

\* two concurrent upserts of the same key, each with item A under
\* deductions, were both acknowledged, and the stored items hold that row
\* twice beside the item from before
C14_Witness ==
    /\ \E t, u \in Threads :
          /\ t # u
          /\ th[t].pc = "done" /\ th[u].pc = "done"
          /\ \A v \in Threads \ {t, u} : th[v].pc = "idle"
          /\ \A x \in th[t].datalist \cup th[u].datalist :
                x.name = "A" /\ x.group = "deductions"
    /\ \E r \in DOMAIN race_items(db) :
          /\ r.item_name = "A" /\ r.item_group = "deductions"
          /\ db.items[r] = 2
    /\ BagCardinality(race_items(db)) = 3

\* C15: when an import answers 201, everything its session wrote is
\* committed: the period of the reported label exists, and the stored rows
\* are those of the session with every staged line item inserted, also when
\* the last rows staged nothing, when nothing was staged at all and when
\* every row was skipped.
C15_AnsweredIsDurable ==
    [][(up.pc = "rows" /\ up'.pc = "idle" /\ resp'.status = 201) =>
          /\ sheet_of(db', resp'.sheet).sheet_id # NULL
          /\ db' = [up.tx EXCEPT !.items = @ (+) up.salary_items]]_vars

\* C16: during an import the committed rows change only by a commit that
\* takes in every row processed so far as a whole: the employee upserts and
\* deletes of the session together with every staged line item, none left
\* in the buffer; a failure puts nothing else in the store.
C16_WholeRowsCommitted ==
    [][up.pc = "rows" =>
          \/ db' = db
          \/ /\ up'.pc = "rows"
             /\ up'.salary_items = EmptyBag
             /\ db' = up'.tx
             /\ BagCardinality(db'.items) >= BagCardinality(up.salary_items)
          \/ /\ up'.pc = "idle"
             /\ resp'.status = 201
             /\ db' = [up.tx EXCEPT !.items = @ (+) up.salary_items]]_vars

\* the second row of an import has just brought the count to batch_size and
\* the batch commit replaced the items the employees had before by the ten
\* staged ones
C16_Witness ==
    /\ up.pc = "rows" /\ up.i = 3
    /\ up.committed /\ up.inserted_rows = batch_size
    /\ up.before.items # EmptyBag
    /\ db # up.before
    /\ db = up.tx
    /\ BagCardinality(db.items) = batch_size

====
